---------------------------- MODULE Spec2Model ----------------------------
(***************************************************************************)
(* Personal finance tracker: transactions, budgets and the budget          *)
(* evaluator of app/routes.py.  Money is held in cents, as the             *)
(* Numeric(10, 2) columns of app/models.py hold it.  The owner is the      *)
(* fixed demo user (id 1), so user_id is left out of every row.            *)
(***************************************************************************)
EXTENDS Integers, Sequences, FiniteSets, Bags, TLC

VARIABLES
    transactions,   \* rows of the transaction table
    budgets,        \* rows of the budget table
    alerts,         \* bag of the alert events printed by the last operation
    resp,           \* the last operation and its HTTP status
    evaluated,      \* the scopes <<month, year>> the last operation evaluated
    written,        \* ids of the budgets whose alert_sent the last operation wrote
    evalRuns,       \* evaluator runs in a row over one scope (0 after a request)
    inflight        \* per worker, the request it serves between its commits

vars == <<transactions, budgets, alerts, resp, evaluated, written, evalRuns, inflight>>

-----------------------------------------------------------------------------
(* Bounds *)

MaxTx == 2          \* transaction rows alive at once
MaxBudgets == 2     \* budget rows alive at once
MaxEvalRuns == 2    \* evaluator runs in a row that are told apart
MaxInFlight == 2    \* requests served at once

-----------------------------------------------------------------------------
(* Values *)

NONE == -1          \* Python None / SQL NULL in a category_id

MINYEAR == 1        \* datetime.MINYEAR
MAXYEAR == 9999     \* datetime.MAXYEAR

DEFAULT_CATEGORIES ==
    << <<"Food", "expense">>, <<"Transport", "expense">>,
       <<"Housing", "expense">>, <<"Utilities", "expense">>,
       <<"Entertainment", "expense">>, <<"Salary", "income">> >>

CategoryIds == 1..Len(DEFAULT_CATEGORIES)

\* the workers that serve requests
Workers == 1..MaxInFlight

\* a worker between requests
Idle ==
    [pc |-> "idle", op |-> "none", ok |-> 0, month |-> 0, year |-> 0,
     writes |-> {}, alone |-> TRUE]

\* JSON values of a payload field: absent/null, a number, a string that
\* holds an integer, a string that holds no number, a value of another type
Missing == [k |-> "none", v |-> 0]
Num(n) == [k |-> "num", v |-> n]
NumStr(n) == [k |-> "numstr", v |-> n]
BadStr == [k |-> "str", v |-> 0]
BadType == [k |-> "list", v |-> 0]

\* JSON values of transaction_date: absent/null/"", a string of the shape
\* YYYY-MM-DD with the fields v, another string, a non-string value
NoDate == [k |-> "none", v |-> <<0, 0, 0>>]
IsoStr(y, m, d) == [k |-> "iso", v |-> <<y, m, d>>]
BadDateStr == [k |-> "str", v |-> <<0, 0, 0>>]
BadDateType == [k |-> "num", v |-> <<0, 0, 0>>]

-----------------------------------------------------------------------------
(* Dates *)

IsLeap(y) == (y % 4 = 0) /\ ((y % 100 # 0) \/ (y % 400 = 0))

DaysInMonth(y, m) ==
    IF m = 2 THEN (IF IsLeap(y) THEN 29 ELSE 28)
    ELSE IF m \in {4, 6, 9, 11} THEN 30 ELSE 31

\* date(year, month, day): raises ValueError outside the calendar
ValidDate(y, m, d) ==
    /\ y >= MINYEAR /\ y <= MAXYEAR
    /\ m >= 1 /\ m <= 12
    /\ d >= 1 /\ d <= DaysInMonth(y, m)

DateLess(a, b) ==
    \/ a[1] < b[1]
    \/ a[1] = b[1] /\ a[2] < b[2]
    \/ a[1] = b[1] /\ a[2] = b[2] /\ a[3] < b[3]

\* date.fromisoformat on a truthy payload value
date_fromisoformat(f) ==
    IF f.k = "num" THEN [err |-> "TypeError", date |-> <<0, 0, 0>>]
    ELSE IF f.k = "iso" /\ ValidDate(f.v[1], f.v[2], f.v[3])
         THEN [err |-> "ok", date |-> f.v]
         ELSE [err |-> "ValueError", date |-> <<0, 0, 0>>]

\* int(value)
int(f) ==
    IF f.k \in {"num", "numstr"} THEN [err |-> "ok", val |-> f.v]
    ELSE IF f.k = "str" THEN [err |-> "ValueError", val |-> 0]
    ELSE [err |-> "TypeError", val |-> 0]

get_month_bounds(year, month) ==
    [ok |-> ValidDate(year, month, 1) /\
            (IF month = 12 THEN ValidDate(year + 1, 1, 1)
                           ELSE ValidDate(year, month + 1, 1)),
     start |-> <<year, month, 1>>,
     end |-> IF month = 12 THEN <<year + 1, 1, 1>> ELSE <<year, month + 1, 1>>]

-----------------------------------------------------------------------------
(* Queries *)

RECURSIVE SumAmounts(_)
SumAmounts(rows) ==
    IF rows = {} THEN 0
    ELSE LET r == CHOOSE x \in rows : TRUE
         IN r.amount + SumAmounts(rows \ {r})

\* the category filter applied also when no category is given
ExpenseQuery_AlwaysByCategory(txs, start, end, category_id) ==
    SumAmounts({t \in txs :
                    /\ t.type = "expense"
                    /\ ~DateLess(t.transaction_date, start)
                    /\ DateLess(t.transaction_date, end)
                    /\ t.category_id = category_id})

\* the query of get_expense_total, run over the window start..end:
\* coalesce(sum(amount), 0) of the expense rows, of one category if given
ExpenseQuery(txs, start, end, category_id) ==
    SumAmounts({t \in txs :
                    /\ t.type = "expense"
                    /\ ~DateLess(t.transaction_date, start)
                    /\ DateLess(t.transaction_date, end)
                    /\ ((category_id # NONE /\ category_id # 0)
                           => t.category_id = category_id)})

ExpenseTotalIn(txs, bounds, category_id) ==
    ExpenseQuery(txs, bounds.start, bounds.end, category_id)

get_expense_total(txs, month, year, category_id) ==
    ExpenseTotalIn(txs, get_month_bounds(year, month), category_id)

\* the remainder taken the wrong way round
StatusOf_Swapped(budget, spent) ==
    [spent |-> spent, remaining |-> spent - budget.limit_amount]

StatusOf(budget, spent) ==
    [spent |-> spent, remaining |-> budget.limit_amount - spent]

compute_budget_status(txs, budget) ==
    StatusOf(budget,
             get_expense_total(txs, budget.month, budget.year, budget.category_id))

\* the event send_budget_alert prints, and the budget it is printed for
send_budget_alert(budget, spent) ==
    [budget_id |-> budget.id,
     category_name |-> IF budget.category_id \in CategoryIds
                       THEN DEFAULT_CATEGORIES[budget.category_id][1]
                       ELSE "Overall",
     month |-> budget.month, year |-> budget.year,
     spent |-> spent, limit |-> budget.limit_amount]

InScope(bs, month, year) == {b \in bs : b.month = month /\ b.year = year}

\* the loop body without its elif branch: a flag once set stays set
AlertTransition_NoReset(budget, spent, over_limit) ==
    IF over_limit /\ ~budget.alert_sent
    THEN [budget |-> [budget EXCEPT !.alert_sent = TRUE], wrote |-> TRUE,
          events |-> SetToBag({send_budget_alert(budget, spent)})]
    ELSE [budget |-> budget, wrote |-> FALSE, events |-> EmptyBag]

\* the loop body alerting whenever the budget is over its limit
AlertTransition_Repeat(budget, spent, over_limit) ==
    IF over_limit
    THEN [budget |-> [budget EXCEPT !.alert_sent = TRUE], wrote |-> ~budget.alert_sent,
          events |-> SetToBag({send_budget_alert(budget, spent)})]
    ELSE IF budget.alert_sent
    THEN [budget |-> [budget EXCEPT !.alert_sent = FALSE], wrote |-> TRUE,
          events |-> EmptyBag]
    ELSE [budget |-> budget, wrote |-> FALSE, events |-> EmptyBag]

\* the branches of the loop body of evaluate_budgets_for_month
AlertTransition(budget, spent, over_limit) ==
    IF over_limit /\ ~budget.alert_sent
    THEN [budget |-> [budget EXCEPT !.alert_sent = TRUE], wrote |-> TRUE,
          events |-> SetToBag({send_budget_alert(budget, spent)})]
    ELSE IF ~over_limit /\ budget.alert_sent
    THEN [budget |-> [budget EXCEPT !.alert_sent = FALSE], wrote |-> TRUE,
          events |-> EmptyBag]
    ELSE [budget |-> budget, wrote |-> FALSE, events |-> EmptyBag]

\* the comparison with >= in place of >
OverLimit_AtLeast(budget, spent) == spent >= budget.limit_amount

OverLimit(budget, spent) == spent > budget.limit_amount

EvaluateStatus(budget, spent) ==
    AlertTransition(budget, spent, OverLimit(budget, spent))

\* one pass of the loop of evaluate_budgets_for_month
EvaluateBudget(txs, budget) ==
    EvaluateStatus(budget, compute_budget_status(txs, budget).spent)

\* the tables and events the loop leaves, from the outcome of every pass
Evaluated(bs, scoped, done) ==
    [raised |-> FALSE,
     budgets |-> (bs \ scoped) \cup {d.budget : d \in done},
     alerts |-> BagUnion({d.events : d \in done}),
     written |-> {d.budget.id : d \in {e \in done : e.wrote}}]

EvaluateScope(txs, bs, month, year, scoped) ==
    IF scoped # {} /\ ~get_month_bounds(year, month).ok
    THEN [raised |-> TRUE, budgets |-> bs, alerts |-> EmptyBag, written |-> {}]
    ELSE Evaluated(bs, scoped, {EvaluateBudget(txs, b) : b \in scoped})

\* evaluate_budgets_for_month: raised when the month window of a budget of
\* the scope is no calendar date (get_month_bounds raises in the first pass
\* of the loop, before any flag is written)
evaluate_budgets_for_month(txs, bs, month, year) ==
    EvaluateScope(txs, bs, month, year, InScope(bs, month, year))

evaluate_budgets_for_transaction(txs, bs, transaction) ==
    evaluate_budgets_for_month(txs, bs, transaction.transaction_date[2],
                               transaction.transaction_date[1])


-----------------------------------------------------------------------------
(* Request parsing *)

\* what the Numeric(10, 2) column takes at commit: a number; any other value
\* makes the commit raise and the request end with nothing written
NumericOk(f) == f.k = "num"

\* parse_transaction_payload: status 0 when it returns data, else the status
\* the request ends with (400 from abort, 500 from an uncaught TypeError)
parse_transaction_payload(payload, today) ==
    LET nodata == [amount |-> Missing, type |-> "none", category_id |-> NONE,
                   transaction_date |-> <<0, 0, 0>>]
        parsed == date_fromisoformat(payload.transaction_date)
    IN IF ~payload.body THEN [status |-> 400, data |-> nodata]
       ELSE IF payload.amount.k = "none" \/ payload.type \notin {"income", "expense"}
       THEN [status |-> 400, data |-> nodata]
       ELSE IF payload.transaction_date.k # "none" /\ parsed.err = "ValueError"
       THEN [status |-> 400, data |-> nodata]
       ELSE IF payload.transaction_date.k # "none" /\ parsed.err = "TypeError"
       THEN [status |-> 500, data |-> nodata]
       ELSE [status |-> 0,
             data |-> [amount |-> payload.amount,
                       type |-> payload.type,
                       category_id |-> payload.category_id,
                       transaction_date |->
                           IF payload.transaction_date.k # "none"
                           THEN parsed.date ELSE today]]

\* parse_budget_payload
parse_budget_payload(payload) ==
    LET nodata == [month |-> 0, year |-> 0, limit_amount |-> Missing,
                   category_id |-> NONE]
        month == int(payload.month)
        year == int(payload.year)
    IN IF ~payload.body THEN [status |-> 400, data |-> nodata]
       ELSE IF \/ payload.month.k = "none"
               \/ payload.year.k = "none"
               \/ payload.limit_amount.k = "none"
       THEN [status |-> 400, data |-> nodata]
       ELSE IF month.err = "TypeError" THEN [status |-> 500, data |-> nodata]
       ELSE IF month.err = "ValueError" THEN [status |-> 400, data |-> nodata]
       ELSE IF year.err = "TypeError" THEN [status |-> 500, data |-> nodata]
       ELSE IF year.err = "ValueError" THEN [status |-> 400, data |-> nodata]
       ELSE IF ~(1 <= month.val /\ month.val <= 12)
       THEN [status |-> 400, data |-> nodata]
       ELSE [status |-> 0,
             data |-> [month |-> month.val, year |-> year.val,
                       limit_amount |-> payload.limit_amount,
                       category_id |-> payload.category_id]]

-----------------------------------------------------------------------------
(* Rows *)

Ids(rows) == {r.id : r \in rows}

\* the primary key of a new row (keys are opaque: the lowest free one)
NewId(rows, max) ==
    CHOOSE i \in 1..max : i \notin Ids(rows) /\ \A j \in 1..(i - 1) : j \in Ids(rows)

Row(rows, id) == CHOOSE r \in rows : r.id = id

\* Transaction(user_id=user_id, **data) / setattr(transaction, key, value)
TransactionRow(id, data) ==
    [id |-> id, category_id |-> data.category_id, amount |-> data.amount.v,
     type |-> data.type, transaction_date |-> data.transaction_date]

\* the row written with the column default in place of the stored flag
BudgetRow_Unset(id, data, alert_sent) ==
    [id |-> id, category_id |-> data.category_id, month |-> data.month,
     year |-> data.year, limit_amount |-> data.limit_amount.v,
     alert_sent |-> FALSE]

\* Budget(user_id=user_id, **data) / setattr(budget, key, value)
BudgetRow(id, data, alert_sent) ==
    [id |-> id, category_id |-> data.category_id, month |-> data.month,
     year |-> data.year, limit_amount |-> data.limit_amount.v,
     alert_sent |-> alert_sent]

\* a request that ends before its first commit
Rejected(op, status) ==
    /\ resp' = [op |-> op, status |-> status]
    /\ alerts' = EmptyBag
    /\ evaluated' = {}
    /\ written' = {}
    /\ evalRuns' = 0
    /\ UNCHANGED <<transactions, budgets, inflight>>

\* the response after the evaluation r of the scope, over the committed
\* transaction table txs
Respond(op, ok, txs, r, month, year) ==
    /\ transactions' = txs
    /\ budgets' = r.budgets
    /\ alerts' = r.alerts
    /\ evaluated' = {<<month, year>>}
    /\ written' = r.written
    /\ evalRuns' = 0
    /\ resp' = [op |-> op, status |-> IF r.raised THEN 500 ELSE ok]
    /\ UNCHANGED inflight

\* the rest of a request after its first commit: the evaluation of a scope
\* over the committed tables txs and bs, then the response
Committed(op, ok, txs, bs, month, year) ==
    Respond(op, ok, txs, evaluate_budgets_for_month(txs, bs, month, year), month, year)

-----------------------------------------------------------------------------
(* Request handlers *)

\* the rest of a transaction request after its first commit: the evaluation
\* of the month and year of the row it wrote, then the response
CommittedTransaction(op, ok, txs, transaction) ==
    Respond(op, ok, txs, evaluate_budgets_for_transaction(txs, budgets, transaction),
            transaction.transaction_date[2], transaction.transaction_date[1])

\* insert the parsed transaction p, commit, evaluate
InsertTransaction(p) ==
    IF p.status # 0 THEN Rejected("create_transaction", p.status)
    ELSE IF ~NumericOk(p.data.amount) THEN Rejected("create_transaction", 500)
    ELSE /\ Cardinality(transactions) < MaxTx
         /\ CommittedTransaction(
                "create_transaction", 201,
                transactions \cup {TransactionRow(NewId(transactions, MaxTx), p.data)},
                TransactionRow(NewId(transactions, MaxTx), p.data))

\* POST /api/transactions
CreateTransaction(payload, today) ==
    InsertTransaction(parse_transaction_payload(payload, today))

\* the month and year to evaluate taken from the row before its fields are
\* set, as delete_transaction takes them
SetTransaction_OldScope(transaction_id, p) ==
    IF p.status # 0 THEN Rejected("update_transaction", p.status)
    ELSE IF ~NumericOk(p.data.amount) THEN Rejected("update_transaction", 500)
    ELSE CommittedTransaction(
             "update_transaction", 200,
             (transactions \ {Row(transactions, transaction_id)})
                 \cup {TransactionRow(transaction_id, p.data)},
             Row(transactions, transaction_id))

\* set the parsed fields p on the row, commit, evaluate
SetTransaction(transaction_id, p) ==
    IF p.status # 0 THEN Rejected("update_transaction", p.status)
    ELSE IF ~NumericOk(p.data.amount) THEN Rejected("update_transaction", 500)
    ELSE CommittedTransaction(
             "update_transaction", 200,
             (transactions \ {Row(transactions, transaction_id)})
                 \cup {TransactionRow(transaction_id, p.data)},
             TransactionRow(transaction_id, p.data))

\* PUT /api/transactions/<id>
UpdateTransaction(transaction_id, payload, today) ==
    IF transaction_id \notin Ids(transactions)
    THEN Rejected("update_transaction", 404)
    ELSE SetTransaction(transaction_id, parse_transaction_payload(payload, today))

\* the evaluation run before the row is deleted
RemoveTransaction_EvaluateFirst(t, transaction_month, transaction_year) ==
    Respond("delete_transaction", 200, transactions \ {t},
            evaluate_budgets_for_month(transactions, budgets,
                                       transaction_month, transaction_year),
            transaction_month, transaction_year)

\* delete the row t, commit, evaluate the month and year taken from it
RemoveTransaction(t, transaction_month, transaction_year) ==
    Committed("delete_transaction", 200, transactions \ {t}, budgets,
              transaction_month, transaction_year)

\* DELETE /api/transactions/<id>
DeleteTransaction(transaction_id) ==
    IF transaction_id \notin Ids(transactions)
    THEN Rejected("delete_transaction", 404)
    ELSE RemoveTransaction(Row(transactions, transaction_id),
                           Row(transactions, transaction_id).transaction_date[2],
                           Row(transactions, transaction_id).transaction_date[1])

\* insert the parsed budget p (alert_sent takes its default), commit, evaluate
InsertBudget(p) ==
    IF p.status # 0 THEN Rejected("create_budget", p.status)
    ELSE IF ~NumericOk(p.data.limit_amount) THEN Rejected("create_budget", 500)
    ELSE /\ Cardinality(budgets) < MaxBudgets
         /\ Committed("create_budget", 201, transactions,
                      budgets \cup {BudgetRow(NewId(budgets, MaxBudgets), p.data, FALSE)},
                      p.data.month, p.data.year)

\* POST /api/budgets
CreateBudget(payload) == InsertBudget(parse_budget_payload(payload))

\* the month and year to evaluate taken from the row before its fields are
\* set, as delete_budget takes them
SetBudget_OldScope(old, p) ==
    IF p.status # 0 THEN Rejected("update_budget", p.status)
    ELSE IF ~NumericOk(p.data.limit_amount) THEN Rejected("update_budget", 500)
    ELSE Committed("update_budget", 200, transactions,
                   (budgets \ {old}) \cup {BudgetRow(old.id, p.data, old.alert_sent)},
                   old.month, old.year)

\* set the parsed fields p on the row old, commit, evaluate
SetBudget(old, p) ==
    IF p.status # 0 THEN Rejected("update_budget", p.status)
    ELSE IF ~NumericOk(p.data.limit_amount) THEN Rejected("update_budget", 500)
    ELSE Committed("update_budget", 200, transactions,
                   (budgets \ {old}) \cup {BudgetRow(old.id, p.data, old.alert_sent)},
                   p.data.month, p.data.year)

\* PUT /api/budgets/<id>
UpdateBudget(budget_id, payload) ==
    IF budget_id \notin Ids(budgets) THEN Rejected("update_budget", 404)
    ELSE SetBudget(Row(budgets, budget_id), parse_budget_payload(payload))

\* delete the row b, commit, evaluate its month and year
RemoveBudget(b) ==
    Committed("delete_budget", 200, transactions, budgets \ {b}, b.month, b.year)

\* DELETE /api/budgets/<id>
DeleteBudget(budget_id) ==
    IF budget_id \notin Ids(budgets) THEN Rejected("delete_budget", 404)
    ELSE RemoveBudget(Row(budgets, budget_id))

-----------------------------------------------------------------------------
(* Read handlers *)

\* the query of get_income_total, run over the window start..end
IncomeQuery(txs, start, end) ==
    SumAmounts({t \in txs :
                    /\ t.type = "income"
                    /\ ~DateLess(t.transaction_date, start)
                    /\ DateLess(t.transaction_date, end)})

get_income_total(txs, month, year) ==
    IncomeQuery(txs, get_month_bounds(year, month).start,
                get_month_bounds(year, month).end)

\* Budget.to_dict
Budget_to_dict(budget) ==
    [id |-> budget.id, category_id |-> budget.category_id,
     month |-> budget.month, year |-> budget.year,
     limit_amount |-> budget.limit_amount, alert_sent |-> budget.alert_sent,
     category_name |-> IF budget.category_id \in CategoryIds
                       THEN DEFAULT_CATEGORIES[budget.category_id][1]
                       ELSE "None"]

\* {**budget.to_dict(), **compute_budget_status(budget)}
BudgetWithStatus(d, status) ==
    [id |-> d.id, category_id |-> d.category_id, month |-> d.month, year |-> d.year,
     limit_amount |-> d.limit_amount, alert_sent |-> d.alert_sent,
     category_name |-> d.category_name,
     spent |-> status.spent, remaining |-> status.remaining]

BudgetPayload(txs, budget) ==
    BudgetWithStatus(Budget_to_dict(budget), compute_budget_status(txs, budget))

\* the lists an ORDER BY can return for the rows: every row once, none
\* placed after a row it sorts before (rows that sort alike come in any order)
Orderings(rows, Before(_, _)) ==
    {s \in [1..Cardinality(rows) -> rows] :
        /\ \A i, j \in 1..Cardinality(rows) : i # j => s[i] # s[j]
        /\ \A i, j \in 1..Cardinality(rows) : i < j => ~Before(s[j], s[i])}

\* order_by(Budget.year.desc(), Budget.month.desc())
RecentFirst(a, b) == a.year > b.year \/ (a.year = b.year /\ a.month > b.month)

\* order_by(Budget.category_id.is_(None).desc())
OverallFirst(a, b) == a.category_id = NONE /\ b.category_id # NONE

\* a query argument of type int: NONE when absent or not an integer; the
\* filter or default applies when it is None or 0
Truthy(arg) == arg # NONE /\ arg # 0

\* the budgets list_budgets selects
Listed(bs, month, year) ==
    {b \in bs : /\ Truthy(month) => b.month = month
                /\ Truthy(year) => b.year = year}

\* list_budgets: status 500 when the month window of a selected budget is no
\* calendar date, else the selected budgets with their status, in one of
\* the orders the query can return
list_budgets(txs, bs, month, year) ==
    IF \E b \in Listed(bs, month, year) : ~get_month_bounds(b.year, b.month).ok
    THEN {[status |-> 500, body |-> << >>]}
    ELSE {[status |-> 200, body |-> [i \in 1..Len(s) |-> BudgetPayload(txs, s[i])]] :
             s \in Orderings(Listed(bs, month, year), RecentFirst)}

\* the join restricted to expense rows, as get_expense_total is
CategoryTotal_ExpenseOnly(txs, start, end, category_id) ==
    SumAmounts({t \in txs :
                    /\ t.category_id = category_id
                    /\ t.type = "expense"
                    /\ ~DateLess(t.transaction_date, start)
                    /\ DateLess(t.transaction_date, end)})

\* coalesce(sum(Transaction.amount), 0) of the group of one category in the
\* outer join of monthly_summary
CategoryTotal(txs, start, end, category_id) ==
    SumAmounts({t \in txs :
                    /\ t.category_id = category_id
                    /\ ~DateLess(t.transaction_date, start)
                    /\ DateLess(t.transaction_date, end)})

\* the seeded category ids in the order of their names, order_by(Category.name.asc())
CategoriesByName == <<5, 1, 3, 6, 2, 4>>

\* category_rows of monthly_summary as the by_category list
by_category(txs, start, end) ==
    [i \in 1..Len(CategoriesByName) |->
        [category_id |-> CategoriesByName[i],
         category_name |-> DEFAULT_CATEGORIES[CategoriesByName[i]][1],
         type |-> DEFAULT_CATEGORIES[CategoriesByName[i]][2],
         total |-> CategoryTotal(txs, start, end, CategoriesByName[i])]]

SummaryBody(txs, month, year, bounds, total_income, total_expense, budgets_payload) ==
    [month |-> month, year |-> year,
     total_income |-> total_income, total_expense |-> total_expense,
     net |-> total_income - total_expense,
     by_category |-> by_category(txs, bounds.start, bounds.end),
     budgets |-> budgets_payload]

\* the summary of a month and year: status 500 when get_month_bounds raises
SummaryOf(txs, bs, month, year) ==
    IF ~get_month_bounds(year, month).ok
    THEN {[status |-> 500, body |-> << >>]}
    ELSE {[status |-> 200,
           body |-> SummaryBody(txs, month, year, get_month_bounds(year, month),
                                get_income_total(txs, month, year),
                                get_expense_total(txs, month, year, NONE),
                                [i \in 1..Len(s) |-> BudgetPayload(txs, s[i])])] :
             s \in Orderings(InScope(bs, month, year), OverallFirst)}

\* monthly_summary: month and year default to today's
monthly_summary(txs, bs, month, year, today) ==
    SummaryOf(txs, bs, IF Truthy(month) THEN month ELSE today[2],
              IF Truthy(year) THEN year ELSE today[1])

\* the response of a read: no table is written, no evaluation runs
Read(op, r) ==
    /\ resp' = [op |-> op, status |-> r.status, body |-> r.body]
    /\ alerts' = EmptyBag
    /\ evaluated' = {}
    /\ written' = {}
    /\ evalRuns' = 0
    /\ UNCHANGED <<transactions, budgets, inflight>>

\* GET /api/budgets
ListBudgets(month, year) ==
    \E r \in list_budgets(transactions, budgets, month, year) : Read("list_budgets", r)

\* GET /api/summary/monthly
MonthlySummary(month, year, today) ==
    \E r \in monthly_summary(transactions, budgets, month, year, today) :
        Read("monthly_summary", r)

-----------------------------------------------------------------------------
(* Requests the model sends *)

Tx(amount, type, category_id, y, m, d) ==
    [body |-> TRUE, amount |-> Num(amount), type |-> type,
     category_id |-> category_id, transaction_date |-> IsoStr(y, m, d)]

Bd(category_id, month, year, limit_amount) ==
    [body |-> TRUE, month |-> Num(month), year |-> Num(year),
     limit_amount |-> Num(limit_amount), category_id |-> category_id]

\* category 1 is Food
TxPayloads ==
    {Tx(5000, "expense", 1, 2024, 6, 5),
     Tx(6000, "expense", 1, 2024, 6, 10),
     Tx(6000, "expense", NONE, 2024, 6, 10),
     Tx(6000, "income", 1, 2024, 6, 10),
     Tx(-1000, "expense", 1, 2024, 6, 10),
     Tx(6000, "expense", 1, 2024, 7, 1)}

BudgetPayloads ==
    {Bd(1, 6, 2024, 10000),
     Bd(1, 6, 2024, 5000),
     Bd(NONE, 6, 2024, 5000),
     Bd(1, 7, 2024, 5000)}

Todays == {<<2024, 6, 10>>}

-----------------------------------------------------------------------------
(* The service, one request at a time *)

\* create_app: the tables are empty but for the seeded user and categories
Init ==
    /\ transactions = {}
    /\ budgets = {}
    /\ alerts = EmptyBag
    /\ resp = [op |-> "create_app", status |-> 0]
    /\ evaluated = {}
    /\ written = {}
    /\ evalRuns = 0
    /\ inflight = [w \in Workers |-> Idle]

\* well-formed requests that name existing rows
Next ==
    \/ \E payload \in TxPayloads, today \in Todays : CreateTransaction(payload, today)
    \/ \E id \in Ids(transactions), payload \in TxPayloads, today \in Todays :
          UpdateTransaction(id, payload, today)
    \/ \E id \in Ids(transactions) : DeleteTransaction(id)
    \/ \E payload \in BudgetPayloads : CreateBudget(payload)
    \/ \E id \in Ids(budgets), payload \in BudgetPayloads : UpdateBudget(id, payload)
    \/ \E id \in Ids(budgets) : DeleteBudget(id)

Spec == Init /\ [][Next]_vars

-----------------------------------------------------------------------------
(* The service when no update moves a transaction to another month or year *)

\* the payload is dated in the month of the stored row
SameMonth(transaction_id, payload) ==
    /\ payload.transaction_date.v[1] = Row(transactions, transaction_id).transaction_date[1]
    /\ payload.transaction_date.v[2] = Row(transactions, transaction_id).transaction_date[2]

NextSame ==
    \/ \E payload \in TxPayloads, today \in Todays : CreateTransaction(payload, today)
    \/ \E id \in Ids(transactions), payload \in TxPayloads, today \in Todays :
          /\ SameMonth(id, payload)
          /\ UpdateTransaction(id, payload, today)
    \/ \E id \in Ids(transactions) : DeleteTransaction(id)
    \/ \E payload \in BudgetPayloads : CreateBudget(payload)
    \/ \E id \in Ids(budgets), payload \in BudgetPayloads : UpdateBudget(id, payload)
    \/ \E id \in Ids(budgets) : DeleteBudget(id)

SpecSame == Init /\ [][NextSame]_vars

-----------------------------------------------------------------------------
(* The service with malformed requests and requests that name no row *)

BaseTx == Tx(5000, "expense", 1, 2024, 6, 5)

\* a payload without a date takes today's
UndatedTxPayloads == {[BaseTx EXCEPT !.transaction_date = NoDate]}

InvalidTxPayloads ==
    {[BaseTx EXCEPT !.body = FALSE],
     [BaseTx EXCEPT !.amount = Missing],
     [BaseTx EXCEPT !.amount = BadStr],
     [BaseTx EXCEPT !.type = "none"],
     [BaseTx EXCEPT !.type = "transfer"],
     [BaseTx EXCEPT !.transaction_date = BadDateStr],
     [BaseTx EXCEPT !.transaction_date = IsoStr(2024, 6, 31)],
     [BaseTx EXCEPT !.transaction_date = BadDateType]}

AllTxPayloads ==
    {BaseTx, Tx(6000, "expense", 1, 2024, 7, 1)}
        \cup UndatedTxPayloads \cup InvalidTxPayloads

BaseBudget == Bd(NONE, 6, 2024, 5000)

\* a year no date has
InvalidYearBudgetPayloads == {[BaseBudget EXCEPT !.year = Num(0)]}

InvalidBudgetPayloads ==
    {[BaseBudget EXCEPT !.body = FALSE],
     [BaseBudget EXCEPT !.month = Missing],
     [BaseBudget EXCEPT !.month = BadStr],
     [BaseBudget EXCEPT !.month = BadType],
     [BaseBudget EXCEPT !.month = Num(0)],
     [BaseBudget EXCEPT !.month = Num(13)],
     [BaseBudget EXCEPT !.year = Missing],
     [BaseBudget EXCEPT !.year = BadStr],
     [BaseBudget EXCEPT !.year = BadType],
     [BaseBudget EXCEPT !.limit_amount = Missing],
     [BaseBudget EXCEPT !.limit_amount = BadStr]}
        \cup InvalidYearBudgetPayloads

AllBudgetPayloads ==
    {BaseBudget, [Bd(1, 7, 2024, 5000) EXCEPT !.month = NumStr(7)]}
        \cup InvalidBudgetPayloads

AllTodays == {<<2024, 6, 10>>, <<2024, 7, 1>>}

NextAll ==
    \/ \E payload \in AllTxPayloads, today \in AllTodays :
          CreateTransaction(payload, today)
    \/ \E id \in 1..MaxTx, payload \in AllTxPayloads, today \in AllTodays :
          UpdateTransaction(id, payload, today)
    \/ \E id \in 1..MaxTx : DeleteTransaction(id)
    \/ \E payload \in AllBudgetPayloads : CreateBudget(payload)
    \/ \E id \in 1..MaxBudgets, payload \in AllBudgetPayloads : UpdateBudget(id, payload)
    \/ \E id \in 1..MaxBudgets : DeleteBudget(id)

SpecAll == Init /\ [][NextAll]_vars

-----------------------------------------------------------------------------
(* The evaluator alone, run over the tables a first commit can leave *)

\* the tables of at most max rows, the row of id i taken from RowsOf(i)
Tables(RowsOf(_), max) ==
    LET slots == {{}} \cup UNION {{{r} : r \in RowsOf(i)} : i \in 1..max}
    IN {UNION {pick[i] : i \in 1..max} :
           pick \in {f \in [1..max -> slots] :
                        \A i \in 1..max : \A r \in f[i] : r.id = i}}

CommittedTransactions(id) ==
    {TransactionRow(id, parse_transaction_payload(payload, today).data) :
        payload \in TxPayloads, today \in Todays}

\* a committed budget row holds the flag an earlier evaluation left
CommittedBudgets(id) ==
    {BudgetRow(id, parse_budget_payload(payload).data, alert_sent) :
        payload \in BudgetPayloads, alert_sent \in BOOLEAN}

InitEval ==
    /\ transactions \in Tables(CommittedTransactions, MaxTx)
    /\ budgets \in Tables(CommittedBudgets, MaxBudgets)
    /\ alerts = EmptyBag
    /\ resp = [op |-> "commit", status |-> 0]
    /\ evaluated = {}
    /\ written = {}
    /\ evalRuns = 0
    /\ inflight = [w \in Workers |-> Idle]

Min(a, b) == IF a < b THEN a ELSE b

Evaluation(r, month, year) ==
    /\ budgets' = r.budgets
    /\ alerts' = r.alerts
    /\ written' = r.written
    /\ evaluated' = {<<month, year>>}
    /\ evalRuns' = IF resp.op = "evaluate" /\ evaluated = {<<month, year>>}
                   THEN Min(evalRuns + 1, MaxEvalRuns) ELSE 1
    /\ resp' = [op |-> "evaluate", status |-> IF r.raised THEN 500 ELSE 0]
    /\ UNCHANGED <<transactions, inflight>>

\* one call of evaluate_budgets_for_month
Evaluate(month, year) ==
    Evaluation(evaluate_budgets_for_month(transactions, budgets, month, year), month, year)

EvalScopes == {<<6, 2024>>, <<7, 2024>>}

NextEval == \E scope \in EvalScopes : Evaluate(scope[1], scope[2])

SpecEval == InitEval /\ [][NextEval]_vars

-----------------------------------------------------------------------------
(* The reads and the month window, over the tables earlier requests can leave *)

\* transactions dated on the last day of a month and the first of the next
ReadTxPayloads ==
    {Tx(5000, "expense", 1, 2024, 6, 30),
     Tx(6000, "expense", 1, 2024, 7, 1),
     Tx(7000, "income", 6, 2024, 6, 30),
     Tx(1000, "expense", NONE, 2024, 12, 31),
     Tx(2000, "expense", 2, 2025, 1, 1)}

ReadBudgetPayloads == {Bd(1, 6, 2024, 5000), Bd(NONE, 6, 2024, 5000)}

StoredTransactions(id) ==
    {TransactionRow(id, parse_transaction_payload(payload, today).data) :
        payload \in ReadTxPayloads, today \in Todays}

StoredBudgets(id) ==
    {BudgetRow(id, parse_budget_payload(payload).data, alert_sent) :
        payload \in ReadBudgetPayloads, alert_sent \in BOOLEAN}

InitRead ==
    /\ transactions \in Tables(StoredTransactions, MaxTx)
    /\ budgets \in Tables(StoredBudgets, MaxBudgets)
    /\ alerts = EmptyBag
    /\ resp = [op |-> "commit", status |-> 0]
    /\ evaluated = {}
    /\ written = {}
    /\ evalRuns = 0
    /\ inflight = [w \in Workers |-> Idle]

\* one call of get_month_bounds: status 500 when date() raises
MonthBounds(year, month) ==
    Read("get_month_bounds",
         [status |-> IF get_month_bounds(year, month).ok THEN 0 ELSE 500,
          body |-> [year |-> year, month |-> month,
                    start |-> get_month_bounds(year, month).start,
                    end |-> get_month_bounds(year, month).end]])

\* <<month, year>> arguments of the reads: NONE for an absent one
SummaryArgs ==
    {<<6, 2024>>, <<7, 2024>>, <<12, 2024>>, <<1, 2025>>, <<12, 9999>>,
     <<13, 2024>>, <<NONE, NONE>>}

ListArgs == {<<NONE, NONE>>, <<6, 2024>>, <<6, NONE>>, <<NONE, 2024>>, <<7, 2024>>}

BoundsYears == {MINYEAR, 2023, 2024, MAXYEAR}

NextRead ==
    \/ \E a \in ListArgs : ListBudgets(a[1], a[2])
    \/ \E a \in SummaryArgs, today \in Todays : MonthlySummary(a[1], a[2], today)
    \/ \E year \in BoundsYears, month \in 1..12 : MonthBounds(year, month)

SpecRead == InitRead /\ [][NextRead]_vars

-----------------------------------------------------------------------------
(* Requests served at once: a request is its first commit, then the loop of *)
(* evaluate_budgets_for_month, then the commit that ends the evaluation     *)

\* worker w takes a step to the record next; a request under way on another
\* worker no longer runs alone
Stepped(w, next) ==
    [v \in Workers |->
        IF v = w THEN next
        ELSE IF inflight[v].pc = "idle" THEN inflight[v]
        ELSE [inflight[v] EXCEPT !.alone = FALSE]]

\* db.session.commit() of a handler: the tables txs and bs are stored, and
\* the month and year to evaluate are held by the worker
FirstCommit(w, op, ok, txs, bs, month, year) ==
    /\ transactions' = txs
    /\ budgets' = bs
    /\ inflight' = Stepped(w, [pc |-> "committed", op |-> op, ok |-> ok,
                               month |-> month, year |-> year, writes |-> {},
                               alone |-> \A v \in Workers \ {w} :
                                             inflight[v].pc = "idle"])
    /\ resp' = [op |-> "commit", status |-> 0]
    /\ alerts' = EmptyBag
    /\ evaluated' = {}
    /\ written' = {}
    /\ evalRuns' = 0

\* the end of a request under way
Finish(w, status, bs, ids) ==
    /\ budgets' = bs
    /\ written' = ids
    /\ inflight' = Stepped(w, Idle)
    /\ resp' = [op |-> inflight[w].op, status |-> status, alone |-> inflight[w].alone]
    /\ alerts' = EmptyBag
    /\ evaluated' = {<<inflight[w].month, inflight[w].year>>}
    /\ evalRuns' = 0
    /\ UNCHANGED transactions

\* the session holding only the flags the loop set, not those it reset
PendingWrites_OnlySet(r) ==
    {<<b.id, b.alert_sent>> : b \in {x \in r.budgets : x.id \in r.written /\ x.alert_sent}}

\* the flags the session holds unflushed after the loop
PendingWrites(r) == {<<b.id, b.alert_sent>> : b \in {x \in r.budgets : x.id \in r.written}}

\* the loop of evaluate_budgets_for_month run by worker w over the stored
\* tables (get_month_bounds raising ends the request): the events are
\* printed, the flags wait in the session for the commit
Looped(w, r) ==
    IF r.raised THEN Finish(w, 500, budgets, {})
    ELSE /\ inflight' = Stepped(w, [inflight[w] EXCEPT !.pc = "evaluated",
                                                       !.writes = PendingWrites(r)])
         /\ alerts' = r.alerts
         /\ resp' = [op |-> "evaluate", status |-> 0]
         /\ evaluated' = {<<inflight[w].month, inflight[w].year>>}
         /\ written' = {}
         /\ evalRuns' = 0
         /\ UNCHANGED <<transactions, budgets>>

EvaluateLoop(w) ==
    /\ inflight[w].pc = "committed"
    /\ Looped(w, evaluate_budgets_for_month(transactions, budgets,
                                            inflight[w].month, inflight[w].year))

\* UPDATE budget SET alert_sent = ... WHERE id = ... for every pending flag
Flushed(bs, writes) ==
    {IF \E wr \in writes : wr[1] = b.id
     THEN [b EXCEPT !.alert_sent = (CHOOSE wr \in writes : wr[1] = b.id)[2]]
     ELSE b : b \in bs}

\* db.session.commit() of evaluate_budgets_for_month: an UPDATE that finds
\* its row deleted raises, the flush is rolled back and the request ends 500
EvaluateCommit(w) ==
    /\ inflight[w].pc = "evaluated"
    /\ IF \E wr \in inflight[w].writes : wr[1] \notin Ids(budgets)
       THEN Finish(w, 500, budgets, {})
       ELSE Finish(w, inflight[w].ok, Flushed(budgets, inflight[w].writes),
                   {wr[1] : wr \in inflight[w].writes})

\* the worker dies between the first commit of its request and the commit of
\* the evaluation: what is committed stays, what is pending is lost
Stop(w) ==
    /\ inflight[w].pc \in {"committed", "evaluated"}
    /\ Finish(w, 500, budgets, {})

\* no request is under way
Quiet == \A w \in Workers : inflight[w].pc = "idle"

\* the worker that takes the next request: the workers are alike, so the
\* free one of the lowest number stands for any of them
Free(w) ==
    /\ inflight[w].pc = "idle"
    /\ \A v \in Workers : v < w => inflight[v].pc # "idle"

\* the handlers up to their first commit
BeginInsertTransaction(w, p) ==
    IF p.status # 0 THEN Rejected("create_transaction", p.status)
    ELSE IF ~NumericOk(p.data.amount) THEN Rejected("create_transaction", 500)
    ELSE /\ Cardinality(transactions) < MaxTx
         /\ FirstCommit(w, "create_transaction", 201,
                transactions \cup {TransactionRow(NewId(transactions, MaxTx), p.data)},
                budgets, p.data.transaction_date[2], p.data.transaction_date[1])

BeginCreateTransaction(w, payload, today) ==
    /\ Free(w)
    /\ BeginInsertTransaction(w, parse_transaction_payload(payload, today))

BeginSetTransaction(w, transaction_id, p) ==
    IF p.status # 0 THEN Rejected("update_transaction", p.status)
    ELSE IF ~NumericOk(p.data.amount) THEN Rejected("update_transaction", 500)
    ELSE FirstCommit(w, "update_transaction", 200,
             (transactions \ {Row(transactions, transaction_id)})
                 \cup {TransactionRow(transaction_id, p.data)},
             budgets, p.data.transaction_date[2], p.data.transaction_date[1])

BeginUpdateTransaction(w, transaction_id, payload, today) ==
    /\ Free(w)
    /\ IF transaction_id \notin Ids(transactions)
       THEN Rejected("update_transaction", 404)
       ELSE BeginSetTransaction(w, transaction_id,
                                parse_transaction_payload(payload, today))

BeginDeleteTransaction(w, transaction_id) ==
    /\ Free(w)
    /\ IF transaction_id \notin Ids(transactions)
       THEN Rejected("delete_transaction", 404)
       ELSE FirstCommit(w, "delete_transaction", 200,
                transactions \ {Row(transactions, transaction_id)}, budgets,
                Row(transactions, transaction_id).transaction_date[2],
                Row(transactions, transaction_id).transaction_date[1])

BeginInsertBudget(w, p) ==
    IF p.status # 0 THEN Rejected("create_budget", p.status)
    ELSE IF ~NumericOk(p.data.limit_amount) THEN Rejected("create_budget", 500)
    ELSE /\ Cardinality(budgets) < MaxBudgets
         /\ FirstCommit(w, "create_budget", 201, transactions,
                budgets \cup {BudgetRow(NewId(budgets, MaxBudgets), p.data, FALSE)},
                p.data.month, p.data.year)

BeginCreateBudget(w, payload) ==
    /\ Free(w)
    /\ BeginInsertBudget(w, parse_budget_payload(payload))

BeginSetBudget(w, old, p) ==
    IF p.status # 0 THEN Rejected("update_budget", p.status)
    ELSE IF ~NumericOk(p.data.limit_amount) THEN Rejected("update_budget", 500)
    ELSE FirstCommit(w, "update_budget", 200, transactions,
             (budgets \ {old}) \cup {BudgetRow(old.id, p.data, old.alert_sent)},
             p.data.month, p.data.year)

BeginUpdateBudget(w, budget_id, payload) ==
    /\ Free(w)
    /\ IF budget_id \notin Ids(budgets) THEN Rejected("update_budget", 404)
       ELSE BeginSetBudget(w, Row(budgets, budget_id), parse_budget_payload(payload))

BeginDeleteBudget(w, budget_id) ==
    /\ Free(w)
    /\ IF budget_id \notin Ids(budgets) THEN Rejected("delete_budget", 404)
       ELSE FirstCommit(w, "delete_budget", 200, transactions,
                budgets \ {Row(budgets, budget_id)},
                Row(budgets, budget_id).month, Row(budgets, budget_id).year)

\* a budget payload that carries an alert_sent key besides its own
WithAlertSent(payload, alert_sent) ==
    [body |-> payload.body, month |-> payload.month, year |-> payload.year,
     limit_amount |-> payload.limit_amount, category_id |-> payload.category_id,
     alert_sent |-> alert_sent]

\* requests of one scope, June 2024
RaceTxPayloads ==
    {Tx(6000, "expense", 1, 2024, 6, 10),
     Tx(3000, "expense", 1, 2024, 6, 5)}

RaceBudgetPayloads ==
    {WithAlertSent(Bd(1, 6, 2024, 5000), TRUE),
     WithAlertSent(Bd(NONE, 6, 2024, 10000), FALSE)}

\* the reads are sent when no request is under way: they write nothing, so
\* their place among the steps of other requests changes no table
RaceReads == {<<6, 2024>>}

NextRace ==
    \/ \E w \in Workers, payload \in RaceTxPayloads, today \in Todays :
          BeginCreateTransaction(w, payload, today)
    \/ \E w \in Workers, id \in Ids(transactions), payload \in RaceTxPayloads,
          today \in Todays :
          BeginUpdateTransaction(w, id, payload, today)
    \/ \E w \in Workers, id \in Ids(transactions) : BeginDeleteTransaction(w, id)
    \/ \E w \in Workers, payload \in RaceBudgetPayloads : BeginCreateBudget(w, payload)
    \/ \E w \in Workers, id \in Ids(budgets), payload \in RaceBudgetPayloads :
          BeginUpdateBudget(w, id, payload)
    \/ \E w \in Workers, id \in Ids(budgets) : BeginDeleteBudget(w, id)
    \/ \E w \in Workers : EvaluateLoop(w)
    \/ \E w \in Workers : EvaluateCommit(w)
    \/ \E a \in RaceReads : Quiet /\ ListBudgets(a[1], a[2])
    \/ \E a \in RaceReads, today \in Todays :
          Quiet /\ MonthlySummary(a[1], a[2], today)

SpecRace == Init /\ [][NextRace]_vars

\* the same with workers that can die
NextStop ==
    \/ NextRace
    \/ \E w \in Workers : Stop(w)

SpecStop == Init /\ [][NextStop]_vars

-----------------------------------------------------------------------------
(* What the properties speak of *)

RECURSIVE Total(_)
Total(rows) ==
    IF rows = {} THEN 0
    ELSE LET r == CHOOSE x \in rows : TRUE
         IN r.amount + Total(rows \ {r})

\* the expenses of a budget: dated in its month, of its category if it has one
Spent(txs, b) ==
    Total({t \in txs :
              /\ t.type = "expense"
              /\ t.transaction_date[1] = b.year
              /\ t.transaction_date[2] = b.month
              /\ (b.category_id # NONE => t.category_id = b.category_id)})

Over(txs, b) == Spent(txs, b) > b.limit_amount

\* the number of alert events for the budget of this id
AlertCount(events, id) ==
    BagCardinality([e \in {x \in BagToSet(events) : x.budget_id = id} |-> events[e]])

TransactionOps == {"create_transaction", "update_transaction", "delete_transaction"}

-----------------------------------------------------------------------------
(* Properties *)

\* C1: after every completed operation each stored budget has
\* alert_sent = (spent > limit_amount), spent being the expenses of the
\* budget's month, of its category if it has one.
C1_AlertMatchesSpending ==
    \A b \in budgets : b.alert_sent = Over(transactions, b)

EvaluatorRan == resp'.op = "evaluate" /\ resp'.status = 0

\* the budgets of the scope the step evaluates, as the step finds them
ScopeBudgets == {b \in budgets : <<b.month, b.year>> \in evaluated'}

\* C2: one run of the evaluator over a scope takes each budget of the scope
\* by this function: over the limit and not alerted, one alert event and
\* alert_sent becomes true; not over the limit and alerted, alert_sent
\* becomes false and no event; otherwise nothing changes and no event.
C2_TransitionFunction ==
    [][EvaluatorRan =>
        /\ Ids(budgets') = Ids(budgets)
        /\ BagCardinality(alerts') =
               Cardinality({b \in ScopeBudgets : Over(transactions, b) /\ ~b.alert_sent})
        /\ \A b \in ScopeBudgets :
              IF Over(transactions, b) /\ ~b.alert_sent
              THEN /\ Row(budgets', b.id) = [b EXCEPT !.alert_sent = TRUE]
                   /\ AlertCount(alerts', b.id) = 1
              ELSE IF ~Over(transactions, b) /\ b.alert_sent
              THEN /\ Row(budgets', b.id) = [b EXCEPT !.alert_sent = FALSE]
                   /\ AlertCount(alerts', b.id) = 0
              ELSE /\ Row(budgets', b.id) = b
                   /\ AlertCount(alerts', b.id) = 0]_vars

\* a run that alerted one budget of its scope and reset another
C2_Witness ==
    /\ resp.op = "evaluate" /\ resp.status = 0
    /\ \E b, c \in budgets :
          /\ <<b.month, b.year>> \in evaluated /\ <<c.month, c.year>> \in evaluated
          /\ b.id \in written /\ b.alert_sent /\ AlertCount(alerts, b.id) = 1
          /\ c.id \in written /\ ~c.alert_sent /\ AlertCount(alerts, c.id) = 0

\* C3: a budget whose spent equals its limit_amount is never alerted by an
\* evaluation: no event, and alert_sent is false after the run (reset if it
\* was true).
C3_EqualIsNotOver ==
    [][EvaluatorRan =>
        \A b \in ScopeBudgets :
            Spent(transactions, b) = b.limit_amount =>
                /\ ~Row(budgets', b.id).alert_sent
                /\ AlertCount(alerts', b.id) = 0]_vars

\* a run over a budget spent exactly to its limit, whose flag was set
C3_Witness ==
    /\ resp.op = "evaluate" /\ resp.status = 0
    /\ \E b \in budgets :
          /\ <<b.month, b.year>> \in evaluated
          /\ Spent(transactions, b) = b.limit_amount
          /\ Spent(transactions, b) > 0
          /\ b.id \in written
          /\ ~b.alert_sent

\* C4: a second run of the evaluator over the same scope, with nothing
\* changed in between, emits no alert event and leaves every alert_sent as
\* the first run left it.
C4_Idempotent ==
    [][(resp.op = "evaluate" /\ resp'.op = "evaluate" /\ evaluated' = evaluated) =>
        /\ alerts' = EmptyBag
        /\ budgets' = budgets]_vars

\* the second run over a scope that holds an alerted, over-limit budget
C4_Witness ==
    /\ resp.op = "evaluate" /\ resp.status = 0
    /\ evalRuns = 2
    /\ alerts = EmptyBag
    /\ \E b \in budgets :
          /\ <<b.month, b.year>> \in evaluated
          /\ b.alert_sent /\ Over(transactions, b)

\* was the budget of this id over its limit before the step (a budget that
\* did not exist was not)
WasOver(id) == id \in Ids(budgets) /\ Over(transactions, Row(budgets, id))

\* C5: over completed operations an alert event is emitted for a budget
\* exactly when its over-limit state (spent > limit_amount) goes from false
\* to true: one event then, none at any other time.
C5_AlertExactlyOnRise ==
    [][\A id \in Ids(budgets') :
          AlertCount(alerts', id) =
              IF ~WasOver(id) /\ Over(transactions', Row(budgets', id)) THEN 1 ELSE 0]_vars

\* C6: deleting a transaction evaluates the scope it belonged to: a budget of
\* that scope whose alert_sent was true and whose spent is at or below its
\* limit without the transaction has alert_sent false when the delete
\* completes, and no event is emitted for it.
C6_DeleteResets ==
    [][(resp'.op = "delete_transaction" /\ resp'.status = 200) =>
        \A t \in transactions \ transactions' : \A b \in budgets :
            (/\ b.year = t.transaction_date[1]
             /\ b.month = t.transaction_date[2]
             /\ b.alert_sent
             /\ Spent(transactions', b) <= b.limit_amount)
            => /\ ~Row(budgets', b.id).alert_sent
               /\ AlertCount(alerts', b.id) = 0]_vars

\* a delete that reset the flag of a budget, silently
C6_Witness ==
    /\ resp.op = "delete_transaction" /\ resp.status = 200
    /\ alerts = EmptyBag
    /\ \E b \in budgets :
          /\ <<b.month, b.year>> \in evaluated
          /\ b.id \in written
          /\ ~b.alert_sent
          /\ Spent(transactions, b) <= b.limit_amount

\* C7: when an expense of amount A is created in the category and month of a
\* category budget of limit L < A, the budget has alert_sent true after the
\* create and its reported spent is at least A.
C7_LargeExpenseAlerts ==
    [][(resp'.op = "create_transaction" /\ resp'.status = 201) =>
        \A t \in transactions' \ transactions : \A b \in budgets' :
            (/\ t.type = "expense"
             /\ b.category_id # NONE
             /\ b.category_id = t.category_id
             /\ b.year = t.transaction_date[1]
             /\ b.month = t.transaction_date[2]
             /\ t.amount > b.limit_amount)
            => /\ b.alert_sent
               /\ compute_budget_status(transactions', b).spent >= t.amount]_vars

E2E_Budget(alert_sent) ==
    [id |-> 1, category_id |-> 1, month |-> 6, year |-> 2024,
     limit_amount |-> 10000, alert_sent |-> alert_sent]

E2E_First ==
    [id |-> 1, category_id |-> 1, amount |-> 5000, type |-> "expense",
     transaction_date |-> <<2024, 6, 5>>]

E2E_Second ==
    [id |-> 2, category_id |-> 1, amount |-> 6000, type |-> "expense",
     transaction_date |-> <<2024, 6, 10>>]

\* C8: with a Food budget of 100.00 for June 2024 and no transactions, an
\* expense of 50 in Food on 2024-06-05 gives spent 50, remaining 50 and no
\* alert; a second of 60 on 2024-06-10 gives spent 110, remaining -10,
\* alert_sent true and one alert event; deleting the second gives spent 50
\* and alert_sent false.
C8_EndToEnd ==
    [][/\ (/\ transactions = {} /\ budgets = {E2E_Budget(FALSE)}
           /\ resp'.op = "create_transaction" /\ transactions' = {E2E_First})
          => /\ budgets' = {E2E_Budget(FALSE)}
             /\ compute_budget_status(transactions', E2E_Budget(FALSE)) =
                    [spent |-> 5000, remaining |-> 5000]
             /\ alerts' = EmptyBag
       /\ (/\ transactions = {E2E_First} /\ budgets = {E2E_Budget(FALSE)}
           /\ resp'.op = "create_transaction"
           /\ transactions' = {E2E_First, E2E_Second})
          => /\ budgets' = {E2E_Budget(TRUE)}
             /\ compute_budget_status(transactions', E2E_Budget(TRUE)) =
                    [spent |-> 11000, remaining |-> -1000]
             /\ BagCardinality(alerts') = 1
             /\ AlertCount(alerts', 1) = 1
       /\ (/\ transactions = {E2E_First, E2E_Second} /\ budgets = {E2E_Budget(TRUE)}
           /\ resp'.op = "delete_transaction" /\ transactions' = {E2E_First})
          => /\ budgets' = {E2E_Budget(FALSE)}
             /\ compute_budget_status(transactions', E2E_Budget(FALSE)).spent = 5000
      ]_vars

\* the end of the scenario: the delete has reset the flag of the Food budget
C8_Witness ==
    /\ resp.op = "delete_transaction" /\ resp.status = 200
    /\ transactions = {E2E_First}
    /\ budgets = {E2E_Budget(FALSE)}
    /\ written = {1}

\* the rows a completed transaction request wrote or deleted
Touched ==
    IF resp'.op = "delete_transaction"
    THEN transactions \ transactions' ELSE transactions' \ transactions

\* C9: a transaction mutation evaluates every budget of the transaction's
\* month and year, whatever its category: after it each of them, the overall
\* budget against the expenses of all categories and of none, has
\* alert_sent = (spent > limit_amount).
C9_AllBudgetsOfScope ==
    [][(resp'.op \in TransactionOps /\ resp'.status \in {200, 201}) =>
        \A t \in Touched : \A b \in budgets' :
            (b.year = t.transaction_date[1] /\ b.month = t.transaction_date[2])
            => b.alert_sent = Over(transactions', b)]_vars

\* an expense with a category switched the overall budget of a scope that
\* holds a category budget too
C9_Witness ==
    /\ resp.op = "create_transaction" /\ resp.status = 201
    /\ \E b, c \in budgets :
          /\ b.category_id = NONE /\ c.category_id # NONE
          /\ <<b.month, b.year>> \in evaluated /\ <<c.month, c.year>> \in evaluated
          /\ b.id \in written /\ b.alert_sent /\ AlertCount(alerts, b.id) = 1
          /\ \A t \in transactions : t.category_id # NONE

\* the step serves a request with a missing or invalid required field, or
\* one that names no row
BadRequest ==
    \/ \E payload \in InvalidTxPayloads, today \in AllTodays :
          CreateTransaction(payload, today)
    \/ \E id \in 1..MaxTx, payload \in AllTxPayloads, today \in AllTodays :
          /\ id \notin Ids(transactions) \/ payload \in InvalidTxPayloads
          /\ UpdateTransaction(id, payload, today)
    \/ \E id \in (1..MaxTx) \ Ids(transactions) : DeleteTransaction(id)
    \/ \E payload \in InvalidBudgetPayloads : CreateBudget(payload)
    \/ \E id \in 1..MaxBudgets, payload \in AllBudgetPayloads :
          /\ id \notin Ids(budgets) \/ payload \in InvalidBudgetPayloads
          /\ UpdateBudget(id, payload)
    \/ \E id \in (1..MaxBudgets) \ Ids(budgets) : DeleteBudget(id)

\* C10: a request with a missing or invalid required field, or an update or
\* delete that names no row, ends with status 400 or 404 before any write:
\* the tables and flags are unchanged, no evaluation runs, no alert event.
C10_RejectedBeforeWrite ==
    [][BadRequest =>
        /\ resp'.status \in {400, 404}
        /\ transactions' = transactions
        /\ budgets' = budgets
        /\ evaluated' = {}
        /\ alerts' = EmptyBag]_vars

\* C14: after any sequence of accepted operations every stored transaction
\* has a non-negative amount and every stored budget a non-negative
\* limit_amount.
C14_NonNegative ==
    /\ \A t \in transactions : t.amount >= 0
    /\ \A b \in budgets : b.limit_amount >= 0

\* the row of a completed update before and after, when its month or year
\* changed
Moved ==
    {m \in (transactions \ transactions') \X (transactions' \ transactions) :
        /\ m[1].id = m[2].id
        /\ <<m[1].transaction_date[1], m[1].transaction_date[2]>> #
               <<m[2].transaction_date[1], m[2].transaction_date[2]>>}

\* C15: when a transaction update moves the date to another month or year,
\* only the scope of the new date is evaluated: every budget of the old
\* month and year keeps its alert_sent, and no alert event is emitted for it.
C15_OldScopeUntouched ==
    [][(resp'.op = "update_transaction" /\ resp'.status = 200) =>
        \A m \in Moved :
            /\ evaluated' = {<<m[2].transaction_date[2], m[2].transaction_date[1]>>}
            /\ \A b \in budgets :
                  (b.year = m[1].transaction_date[1] /\ b.month = m[1].transaction_date[2])
                  => /\ Row(budgets', b.id) = b
                     /\ AlertCount(alerts', b.id) = 0]_vars

\* an update has moved an expense out of the month of an alerted budget,
\* which is left alerted with its spending at or below the limit
C15_Witness ==
    /\ resp.op = "update_transaction" /\ resp.status = 200
    /\ \E b \in budgets :
          /\ <<b.month, b.year>> \notin evaluated
          /\ b.alert_sent
          /\ ~Over(transactions, b)

BudgetOps == {"create_budget", "update_budget"}

\* the budget a completed create-budget or update-budget wrote: the one
\* whose fields differ from before, or that the evaluation switched
Affected ==
    {b \in budgets' :
        \/ b.id \notin Ids(budgets)
        \/ [b EXCEPT !.alert_sent = FALSE] #
               [Row(budgets, b.id) EXCEPT !.alert_sent = FALSE]}

\* C16: when a create-budget or update-budget completes, the budget it wrote
\* has alert_sent = (spent > limit_amount) in its new month, year and
\* category; it gets one alert event when the change put existing spending
\* over its limit, and none otherwise.
C16_BudgetChangeEvaluated ==
    [][(resp'.op \in BudgetOps /\ resp'.status \in {200, 201}) =>
        \A b \in Affected :
            /\ b.alert_sent = Over(transactions', b)
            /\ AlertCount(alerts', b.id) =
                   IF ~WasOver(b.id) /\ Over(transactions', b) THEN 1 ELSE 0]_vars

\* C20: over completed operations, one at a time, none of them an update
\* that moves a transaction to another month or year, no stored budget has a
\* stale flag: each is alerted if and only if its spent exceeds its limit.
C20_NeverStale ==
    \A b \in budgets :
        /\ b.alert_sent => Spent(transactions, b) > b.limit_amount
        /\ Spent(transactions, b) > b.limit_amount => b.alert_sent

\* an update has moved a budget to a month whose spending exceeds its limit
\* and the budget was alerted
C20_Witness ==
    /\ resp.op = "update_budget" /\ resp.status = 200
    /\ \E b \in budgets :
          /\ b.id \in written
          /\ b.alert_sent
          /\ b.month = 7
          /\ AlertCount(alerts, b.id) = 1

\* the amounts of the rows of one type dated in a month of a year
TotalOfMonth(txs, type, year, month) ==
    Total({t \in txs : /\ t.type = type
                       /\ t.transaction_date[1] = year
                       /\ t.transaction_date[2] = month})

\* C12: for every year and month 1..12 of the calendar get_month_bounds
\* returns the first day of the month and the first day of the following
\* month (January 1 of year + 1 after December), so that the totals of a
\* month count the rows dated in it, its last day included, and no row
\* dated in the following month.
C12_MonthWindow ==
    /\ (/\ resp.op = "get_month_bounds"
        /\ resp.body.year \in MINYEAR..MAXYEAR
        /\ resp.body.month \in 1..12)
       => /\ resp.status = 0
          /\ resp.body.start = <<resp.body.year, resp.body.month, 1>>
          /\ resp.body.end = IF resp.body.month = 12
                             THEN <<resp.body.year + 1, 1, 1>>
                             ELSE <<resp.body.year, resp.body.month + 1, 1>>
    /\ (resp.op = "monthly_summary" /\ resp.status = 200)
       => /\ resp.body.total_expense =
                 TotalOfMonth(transactions, "expense", resp.body.year, resp.body.month)
          /\ resp.body.total_income =
                 TotalOfMonth(transactions, "income", resp.body.year, resp.body.month)

\* the entries of the breakdown for one category
EntriesOf(breakdown, category_id) ==
    {i \in 1..Len(breakdown) : breakdown[i].category_id = category_id}

\* C13: the by_category list of a monthly summary has exactly one entry for
\* every category of the owner; its total is the sum of the amounts of the
\* transactions of that category, income and expense, dated in the month,
\* which is 0 for a category with none.
C13_EveryCategoryOnce ==
    (resp.op = "monthly_summary" /\ resp.status = 200) =>
        /\ Len(resp.body.by_category) = Cardinality(CategoryIds)
        /\ \A c \in CategoryIds :
              /\ Cardinality(EntriesOf(resp.body.by_category, c)) = 1
              /\ \A i \in EntriesOf(resp.body.by_category, c) :
                    resp.body.by_category[i].total =
                        Total({t \in transactions :
                                  /\ t.category_id = c
                                  /\ t.transaction_date[1] = resp.body.year
                                  /\ t.transaction_date[2] = resp.body.month})

\* a summary of June 2024 with an expense in Food and an income in Salary
\* on the last day of the month, and nothing in the other categories
C13_Witness ==
    /\ resp.op = "monthly_summary" /\ resp.status = 200
    /\ resp.body.month = 6 /\ resp.body.year = 2024
    /\ \E i, j, k \in 1..Len(resp.body.by_category) :
          /\ resp.body.by_category[i].category_name = "Food"
          /\ resp.body.by_category[i].total = 5000
          /\ resp.body.by_category[j].category_name = "Salary"
          /\ resp.body.by_category[j].total = 7000
          /\ resp.body.by_category[k].category_name = "Transport"
          /\ resp.body.by_category[k].total = 0

ReadOps == {"list_budgets", "monthly_summary"}

\* the step is the commit of the evaluation of worker w
EvaluationCommitted(w) ==
    inflight[w].pc = "evaluated" /\ inflight'[w].pc = "idle"

\* C11: alert_sent changes only in the evaluator. A budget a request creates
\* is stored with alert_sent false whatever its payload holds, an update
\* stores the flag the row had, and a flag changes only in the commit of an
\* evaluation that computed it; GET /api/budgets and GET /api/summary/monthly
\* leave the tables as they are and emit no alert.
C11_OnlyEvaluatorWrites ==
    [][/\ \A b \in budgets' :
             IF b.id \notin Ids(budgets) THEN ~b.alert_sent
             ELSE b.alert_sent # Row(budgets, b.id).alert_sent =>
                      \E w \in Workers :
                          /\ EvaluationCommitted(w)
                          /\ <<b.id, b.alert_sent>> \in inflight[w].writes
       /\ resp'.op \in ReadOps =>
             /\ transactions' = transactions
             /\ budgets' = budgets
             /\ alerts' = EmptyBag]_vars

\* the first commit of a create-budget whose payload holds alert_sent true
\* (the Food budget of limit 50.00) has stored the budget not alerted, with
\* Food spending already over the limit
C11_Witness ==
    /\ resp.op = "commit"
    /\ \E w \in Workers :
          inflight[w].pc = "committed" /\ inflight[w].op = "create_budget"
    /\ Cardinality(budgets) = 1
    /\ \A b \in budgets :
          /\ b.limit_amount = 5000
          /\ ~b.alert_sent
          /\ Over(transactions, b)

\* the step ends a request that ran from its first commit to the commit of
\* its evaluation with no step of another request in between
SoloDone ==
    /\ \E w \in Workers : EvaluationCommitted(w) /\ inflight[w].alone
    /\ resp'.status \in {200, 201}

\* after the step every budget of the scope it evaluated has its flag right
ScopeRight ==
    \A b \in budgets' :
        <<b.month, b.year>> \in evaluated' => b.alert_sent = Over(transactions', b)

\* the step is a read answered with no request under way
ReadDone == Quiet /\ resp'.op \in ReadOps /\ resp'.status = 200

\* the ids of the budgets a read has returned
ReadBudgets(r) ==
    IF r.op = "list_budgets" THEN {r.body[i].id : i \in 1..Len(r.body)}
    ELSE {r.body.budgets[i].id : i \in 1..Len(r.body.budgets)}

\* C17 as claimed: when interleaved mutations of a scope have left a flag
\* out of step, a later read of the scope (GET /api/budgets or
\* GET /api/summary/monthly) or a later mutation of it, run with no other
\* request under way, leaves every budget of the scope with
\* alert_sent = (spent > limit_amount).
C17_ReadOrMutationCorrects ==
    [][/\ SoloDone => ScopeRight
       /\ ReadDone =>
             \A b \in budgets' :
                 b.id \in ReadBudgets(resp') => b.alert_sent = Over(transactions', b)]_vars

\* C17 as amended: a later mutation that evaluates the scope, run with no
\* other request under way, leaves every budget of the scope with
\* alert_sent = (spent > limit_amount); a read changes no flag.
C17_MutationCorrects ==
    [][/\ SoloDone => ScopeRight
       /\ ReadDone => budgets' = budgets]_vars

\* a delete-budget that ran alone has written the flag of another budget:
\* deleting a budget changes no other budget's spent or limit, so the flag
\* it corrected had been left out of step
C17_Witness ==
    /\ resp.op = "delete_budget" /\ resp.status = 200
    /\ resp.alone
    /\ written # {}
    /\ \A b \in budgets : b.alert_sent = Over(transactions, b)

\* the evaluations under way that have emitted the alert of the budget and
\* not yet stored its flag
Unstored(id) == {w \in Workers : <<id, TRUE>> \in inflight[w].writes}

\* C18: the alert stays one-shot when evaluations interleave: a budget never
\* has two evaluations under way that have each emitted its alert for the
\* one change of its stored flag from false to true.
C18_OneShotUnderRace ==
    \A id \in 1..MaxBudgets : Cardinality(Unstored(id)) <= 1

\* the step is the first commit of a request
FirstCommitted == \E w \in Workers : inflight[w].pc = "idle" /\ inflight'[w].pc = "committed"

\* the step ends a request between its first commit and its evaluation
Stopped ==
    /\ \E w \in Workers : inflight[w].pc = "committed" /\ inflight'[w].pc = "idle"
    /\ resp'.status = 500

\* C19: the mutation is committed before its evaluation and apart from it.
\* The first commit stores the write and changes no flag; a request that
\* stops before its evaluation leaves the tables as committed, nothing
\* rolled back, no flag changed and no event; and a later evaluation of the
\* scope, run alone, leaves every budget of the scope with
\* alert_sent = (spent > limit_amount).
C19_CommitThenEvaluate ==
    [][/\ FirstCommitted =>
             /\ \A b \in budgets' :
                   b.alert_sent => (b.id \in Ids(budgets) /\ Row(budgets, b.id).alert_sent)
             /\ alerts' = EmptyBag
       /\ Stopped =>
             /\ transactions' = transactions
             /\ budgets' = budgets
             /\ alerts' = EmptyBag
       /\ SoloDone => ScopeRight]_vars

\* a create-transaction that ran alone stopped after its first commit: the
\* expense is stored and a budget it put over its limit is not alerted
C19_Witness ==
    /\ resp.op = "create_transaction" /\ resp.status = 500
    /\ resp.alone
    /\ Quiet
    /\ written = {}
    /\ \E b \in budgets : ~b.alert_sent /\ Over(transactions, b)

=============================================================================
